---- MODULE Spec2Model ----
(***************************************************************************)
(* Model of the lodge front-desk dashboard core:                           *)
(*   - src/src/utils/authUtils.ts  (credential decoder, session store)     *)
(*   - src/src/pages/AdminDashboard.tsx (AdminDashboard.fetchData and      *)
(*     ReceptionistDashboard.fetchBookings: the booking aggregation)       *)
(*                                                                         *)
(* Time is in milliseconds, counted from a reference UTC midnight instead  *)
(* of 1970-01-01 so that every value fits TLC's integers; all arithmetic   *)
(* of the code is differences and day boundaries, which the shift keeps.   *)
(***************************************************************************)
EXTENDS Integers, Sequences, FiniteSets, TLC

VARIABLES
    store,      \* localStorage['authToken']: [present, token]
    now,        \* Date.now(), in ms
    ret,        \* the last call of the credential decoder: [op, arg, at, out]
    cleared,    \* history: what clearAuthToken last removed, "no" once a token is stored
    view,       \* the dashboard that is mounted: "admin" or "receptionist"
    tz,         \* the browser's offset from UTC in ms (local time = UTC + tz)
    bookingsDb, \* what GET /api/bookings returns
    roomsDb,    \* what GET /api/rooms returns
    cycles,     \* the fetch cycles in flight, in the order they started
    rooms,              \* useState: rooms (admin)
    upcomingCheckouts,  \* useState: upcomingCheckouts
    dailySummary,       \* useState: dailySummary (admin)
    taskCounts,         \* useState: taskCounts (receptionist)
    loading,            \* useState: loading
    basis,      \* history: what the last applied result was computed from
    timer,      \* the refresh interval is registered (from the effect to its cleanup)
    cap,        \* how many fetch cycles the behaviour lets be in flight at once
    inspections,\* the room-inspection count the housekeeping collaborator holds
    checkoutCalls,  \* the handleCheckout calls in flight
    checkedOut  \* history: the booking codes handleCheckout has removed

authVars == <<store, ret, cleared>>
\* what no step of a dashboard changes
envVars == <<view, tz, roomsDb, cap, inspections>>
dashVars == <<envVars, bookingsDb, cycles, rooms, upcomingCheckouts, dailySummary, taskCounts,
              loading, basis, timer, checkoutCalls, checkedOut>>
vars == <<store, now, ret, cleared, view, tz, bookingsDb, roomsDb, cycles, rooms,
          upcomingCheckouts, dailySummary, taskCounts, loading, basis, timer, cap,
          inspections, checkoutCalls, checkedOut>>

(***************************************************************************)
(* JavaScript values and outcomes                                          *)
(***************************************************************************)
Undefined == [t |-> "undefined"]
Null == [t |-> "null"]
Num(n) == [t |-> "num", n |-> n]
Str(s) == [t |-> "str", s |-> s]
Bool(b) == [t |-> "bool", b |-> b]
Obj(f) == [t |-> "obj", f |-> f]
NaN == [t |-> "nan"]
Infinity == [t |-> "inf"]

\* An outcome of a call: it returns a value or it throws.
Return(v) == [k |-> "return", v |-> v]
Throw == [k |-> "throw"]

\* !v
Falsy(v) ==
    \/ v.t \in {"undefined", "null", "nan"}
    \/ v.t = "num" /\ v.n = 0
    \/ v.t = "str" /\ v.s = ""
    \/ v.t = "bool" /\ ~v.b

\* v.name: a TypeError on null and undefined, undefined on a primitive or
\* on an object without the field.
GetProp(v, name) ==
    IF v.t \in {"undefined", "null"} THEN Throw
    ELSE IF v.t = "obj" /\ name \in DOMAIN v.f THEN Return(v.f[name])
    ELSE Return(Undefined)

\* v?.name
GetPropOptional(v, name) ==
    IF v.t \in {"undefined", "null"} THEN Return(Undefined) ELSE GetProp(v, name)

\* a || null
OrNull(v) == IF Falsy(v) THEN Null ELSE v

\* a > b for a decoded claim a (seconds) and b = nowMs / 1000, a fractional
\* number of seconds: both sides are scaled by 1000. ToNumber(undefined) is
\* NaN, and every comparison with NaN is false; ToNumber(null) is 0.
GreaterThanSeconds(a, nowMs) ==
    CASE a.t = "num" -> a.n * 1000 > nowMs
      [] a.t = "null" -> 0 > nowMs
      [] a.t = "bool" -> (IF a.b THEN 1000 ELSE 0) > nowMs
      [] a.t = "str" -> a.s = "" /\ 0 > nowMs
      [] OTHER -> FALSE

(***************************************************************************)
(* Tokens.  A token string is the sequence of its dot-separated segments   *)
(* (what token.split('.') returns); a segment is described by how far the  *)
(* decoding pipeline of parseJwt gets on it and by the JSON value it       *)
(* holds when the pipeline gets through.                                   *)
(***************************************************************************)
MaxSegments == 4
MaxTicks == 4
TickMs == 500
StartMs == 9500
ExpSeconds == {10, 11}

Seg(enc, val) == [enc |-> enc, val |-> val]
EmptySeg == Seg("empty", Undefined)        \* ""
Filler == Seg("badB64", Undefined)         \* a header or a signature, e.g. "a"

\* The claims a payload object may hold: every expiry case (none, each of
\* ExpSeconds) with every profile (which of id, role, username are present,
\* and the role's value).
Profiles ==
    {<<>>,
     [id |-> Str("u1"), role |-> Str("ADMIN"), username |-> Str("lodge")],
     [id |-> Str("u1")],
     [role |-> Str(""), username |-> Str("lodge")],
     [role |-> Str("RECEPTIONIST")]}

WithExp(f, e) == [n \in DOMAIN f \cup {"exp"} |-> IF n = "exp" THEN Num(e) ELSE f[n]]

ClaimRecords == Profiles \cup {WithExp(f, e) : f \in Profiles, e \in ExpSeconds}

Payloads ==
    {Seg("badB64", Undefined), Seg("badUtf8", Undefined), Seg("badJson", Undefined),
     EmptySeg}
    \cup {Seg("json", v) : v \in {Null, Num(0), Num(5)}}
    \cup {Seg("json", Obj(f)) : f \in ClaimRecords}

Tokens ==
    {<<Filler>>, <<EmptySeg>>}
    \cup {<<Filler, p>> \o [i \in 1..k |-> Filler] : p \in Payloads, k \in 0..(MaxSegments - 2)}

Absent == [present |-> FALSE, token |-> <<>>]
Present(t) == [present |-> TRUE, token |-> t]

(***************************************************************************)
(* authUtils.ts                                                            *)
(***************************************************************************)
\* token.split('.')[1]: undefined when the token has a single segment
Segment1(token) == IF Len(token) >= 2 THEN Return(token[2]) ELSE Return(Undefined)

\* base64Url.replace(/-/g, '+').replace(/_/g, '/'): a TypeError on undefined
ReplaceUrlChars(base64Url) ==
    IF "t" \in DOMAIN base64Url THEN Throw ELSE Return(base64Url)

\* atob(base64): InvalidCharacterError on a string that is not base64
Atob(base64) == IF base64.enc = "badB64" THEN Throw ELSE Return(base64)

\* decodeURIComponent of the percent-escaped bytes: URIError on bytes that
\* are not UTF-8
DecodeURIComponent(bytes) == IF bytes.enc = "badUtf8" THEN Throw ELSE Return(bytes)

\* JSON.parse(jsonPayload): SyntaxError on text that is not JSON
JSONParse(text) ==
    IF text.enc = "json" THEN Return(text.val) ELSE Throw

\* the try block of parseJwt
ParseJwtTry(token) ==
    LET base64 == ReplaceUrlChars(Segment1(token).v) IN
    IF base64.k = "throw" THEN Throw
    ELSE LET bytes == Atob(base64.v) IN
         IF bytes.k = "throw" THEN Throw
         ELSE LET jsonPayload == DecodeURIComponent(bytes.v) IN
              IF jsonPayload.k = "throw" THEN Throw
              ELSE JSONParse(jsonPayload.v)

\* variant of parseJwt without its catch
ParseJwtNoCatch(token) == ParseJwtTry(token)

\* parseJwt: the catch logs and returns null
ParseJwt(token) ==
    LET r == ParseJwtTry(token) IN
    IF r.k = "throw" THEN Return(Null) ELSE r

\* variant of the try block with decoded.exp >= currentTime
IsTokenValidTryGe(token, nowMs) ==
    LET decoded == ParseJwt(token) IN
    IF decoded.k = "throw" THEN Throw
    ELSE IF Falsy(decoded.v) THEN Return(Bool(FALSE))
    ELSE LET exp == GetProp(decoded.v, "exp") IN
         IF exp.k = "throw" THEN Throw
         ELSE Return(Bool(exp.v.t = "num" /\ exp.v.n * 1000 >= nowMs))

\* variant of the try block that lets a token without exp through
IsTokenValidTryNoExp(token, nowMs) ==
    LET decoded == ParseJwt(token) IN
    IF decoded.k = "throw" THEN Throw
    ELSE IF Falsy(decoded.v) THEN Return(Bool(FALSE))
    ELSE LET exp == GetProp(decoded.v, "exp") IN
         IF exp.k = "throw" THEN Throw
         ELSE Return(Bool(Falsy(exp.v) \/ GreaterThanSeconds(exp.v, nowMs)))

\* the try block of isTokenValid, with currentTime = nowMs / 1000
IsTokenValidTry(token, nowMs) ==
    LET decoded == ParseJwt(token) IN
    IF decoded.k = "throw" THEN Throw
    ELSE IF Falsy(decoded.v) THEN Return(Bool(FALSE))
    ELSE LET exp == GetProp(decoded.v, "exp") IN
         IF exp.k = "throw" THEN Throw
         ELSE Return(Bool(GreaterThanSeconds(exp.v, nowMs)))

\* isTokenValid: the catch logs and returns false
IsTokenValid(token, nowMs) ==
    LET r == IsTokenValidTry(token, nowMs) IN
    IF r.k = "throw" THEN Return(Bool(FALSE)) ELSE r

\* localStorage.getItem('authToken'): null when the key is absent
GetItem(st) == IF st.present THEN st.token ELSE <<>>

\* !token, for what getItem returned: null or the empty string
NoToken(st) == ~st.present \/ st.token = <<EmptySeg>>

\* the shared body of getUserRoleFromToken, getUserIdFromToken and
\* getUsername: decoded?.field || null inside try, null from the catch
Accessor(st, field) ==
    IF NoToken(st) THEN Return(Null)
    ELSE LET decoded == ParseJwt(GetItem(st)) IN
         IF decoded.k = "throw" THEN Return(Null)
         ELSE LET v == GetPropOptional(decoded.v, field) IN
              IF v.k = "throw" THEN Return(Null) ELSE Return(OrNull(v.v))

GetUserRoleFromToken(st) == Accessor(st, "role")
GetUserIdFromToken(st) == Accessor(st, "id")
GetUsername(st) == Accessor(st, "username")

\* variant of removeItem that removes another key
RemoveItemNothing(st) == st

\* localStorage.removeItem('authToken')
RemoveItem(st) == Absent

(***************************************************************************)
(* AdminDashboard.tsx: the aggregation of a bookings response.             *)
(*                                                                         *)
(* A scheduled date string is held as the instant new Date(string) gives   *)
(* in the browser's zone (NaN for a string that is no date); the backend   *)
(* writes the string as local wall-clock time of that same zone, so the    *)
(* string's YYYY-MM-DD part is the local calendar day of the instant.      *)
(* The Date objects one synchronous aggregation creates all read the same  *)
(* millisecond.                                                            *)
(***************************************************************************)
HourMs == 1000 * 60 * 60
MinuteMs == 1000 * 60
DayMs == 24 * HourMs
WindowMs == 2 * 60 * 60 * 1000
Limit == 3

\* new Date(string).getTime()
GetTime(date) == date

\* a - b on numbers
Minus(a, b) == IF a.t = "num" /\ b.t = "num" THEN Num(a.n - b.n) ELSE NaN

\* a % b of JavaScript: the sign of the dividend
JsRem(a, b) == IF a >= 0 THEN a % b ELSE 0 - ((0 - a) % b)

\* `${n}` of a number
NumText(a) == IF a.t = "num" THEN ToString(a.n) ELSE "NaN"

\* `${hoursRemaining}hr ${minutesRemaining}min`
RemainingTime(timeDiff) ==
    LET hoursRemaining == IF timeDiff.t = "num" THEN Num(timeDiff.n \div HourMs) ELSE NaN
        minutesRemaining ==
            IF timeDiff.t = "num" THEN Num(JsRem(timeDiff.n, HourMs) \div MinuteMs) ELSE NaN
    IN NumText(hoursRemaining) \o "hr " \o NumText(minutesRemaining) \o "min"

\* the first map of the chain: one booking to a checkout with its remainingMs
ToCheckout(booking, nowMs) ==
    LET timeDiff == Minus(GetTime(booking.scheduledCheckOut), Num(nowMs)) IN
    [bookingCode |-> booking.bookingCode,
     guestName |-> booking.guestName,
     roomNumber |-> booking.room.roomNumber,
     remainingTime |-> RemainingTime(timeDiff),
     remainingMs |-> timeDiff]

\* variant of the filter with remainingMs >= 0
InWindowInclusiveZero(checkout) ==
    /\ checkout.remainingMs.t = "num"
    /\ checkout.remainingMs.n >= 0
    /\ checkout.remainingMs.n <= WindowMs

\* checkout.remainingMs > 0 && checkout.remainingMs <= 2 * 60 * 60 * 1000
InWindow(checkout) ==
    /\ checkout.remainingMs.t = "num"
    /\ checkout.remainingMs.n > 0
    /\ checkout.remainingMs.n <= WindowMs

\* the comparator (a, b) => a.remainingMs - b.remainingMs is positive
ComesAfter(a, b) == a.remainingMs.n - b.remainingMs.n > 0

\* one element put into a sorted sequence after every element it does not
\* come before: Array.prototype.sort is stable
RECURSIVE InsertSorted(_, _)
InsertSorted(x, sorted) ==
    IF sorted = <<>> THEN <<x>>
    ELSE IF ComesAfter(Head(sorted), x) THEN <<x>> \o sorted
    ELSE <<Head(sorted)>> \o InsertSorted(x, Tail(sorted))

\* variant of the chain without its sort
SortKeepsOrder(checkouts) == checkouts

\* .sort((a, b) => a.remainingMs - b.remainingMs)
RECURSIVE SortByRemaining(_)
SortByRemaining(checkouts) ==
    IF checkouts = <<>> THEN <<>>
    ELSE InsertSorted(checkouts[Len(checkouts)],
                      SortByRemaining(SubSeq(checkouts, 1, Len(checkouts) - 1)))

\* variant of the chain without its slice
SliceAll(checkouts) == checkouts

\* .slice(0, 3)
Slice(checkouts) == SubSeq(checkouts, 1, IF Len(checkouts) < Limit THEN Len(checkouts) ELSE Limit)

\* the last map of the chain drops remainingMs
ToView(checkout) ==
    [bookingCode |-> checkout.bookingCode,
     guestName |-> checkout.guestName,
     roomNumber |-> checkout.roomNumber,
     remainingTime |-> checkout.remainingTime]

IsCheckedIn(b) == b.status = "CHECKED_IN"
IsReserved(b) == b.status = "RESERVED"

\* upcomingCheckoutsList, the same chain in fetchData and in fetchBookings
UpcomingCheckoutsList(data, nowMs) ==
    LET checkedInBookings == SelectSeq(data, IsCheckedIn)
        mapped == [i \in 1..Len(checkedInBookings) |-> ToCheckout(checkedInBookings[i], nowMs)]
        kept == Slice(SortByRemaining(SelectSeq(mapped, InWindow)))
    IN [i \in 1..Len(kept) |-> ToView(kept[i])]

\* date.setHours(0, 0, 0, 0); date.getTime(): local midnight of the date's day
LocalMidnight(date, offset) ==
    IF date.t = "num" THEN Num(date.n - ((date.n + offset) % DayMs)) ELSE NaN

\* a === b on numbers: NaN equals nothing
StrictEquals(a, b) == a.t = "num" /\ b.t = "num" /\ a.n = b.n

\* String(v) of a value that + concatenates
ToText(v) ==
    CASE v.t = "str" -> v.s
      [] v.t = "num" -> ToString(v.n)
      [] v.t = "nan" -> "NaN"
      [] v.t = "inf" -> "Infinity"
      [] v.t = "null" -> "null"
      [] v.t = "bool" -> (IF v.b THEN "true" ELSE "false")
      [] v.t = "obj" -> "[object Object]"
      [] OTHER -> "undefined"

\* a + b: concatenation when either side is a string or an object, and
\* otherwise the sum of the two as numbers (null is 0, undefined is NaN)
Plus(a, b) ==
    LET AsNum(v) == CASE v.t = "num" -> v
                      [] v.t = "null" -> Num(0)
                      [] v.t = "bool" -> Num(IF v.b THEN 1 ELSE 0)
                      [] v.t = "inf" -> Infinity
                      [] OTHER -> NaN
    IN IF a.t \in {"str", "obj"} \/ b.t \in {"str", "obj"} THEN Str(ToText(a) \o ToText(b))
       ELSE IF AsNum(a).t = "nan" \/ AsNum(b).t = "nan" THEN NaN
       ELSE IF AsNum(a).t = "inf" \/ AsNum(b).t = "inf" THEN Infinity
       ELSE Num(AsNum(a).n + AsNum(b).n)

\* .reduce((sum, booking) => sum + booking.totalCharges, 0)
RECURSIVE SumCharges(_)
SumCharges(data) ==
    IF data = <<>> THEN Num(0)
    ELSE Plus(SumCharges(SubSeq(data, 1, Len(data) - 1)), data[Len(data)].totalCharges)

\* new Date(booking.scheduledCheckIn) set to midnight equals today's midnight
CheckInIsToday(b, nowMs, offset) ==
    StrictEquals(LocalMidnight(b.scheduledCheckIn, offset), LocalMidnight(Num(nowMs), offset))

TodayRevenueOfEveryDay(data, nowMs, offset) == SumCharges(data)

\* todayRevenue: the charges of the bookings whose check-in day is today
TodayRevenue(data, nowMs, offset) ==
    LET CheckInToday(b) == CheckInIsToday(b, nowMs, offset)
    IN SumCharges(SelectSeq(data, CheckInToday))

\* Math.round((occupiedRooms / totalRooms) * 100): 0 / 0 is NaN, n / 0 is
\* Infinity, and Math.round rounds a half up
OccupancyRate(occupiedRooms, totalRooms) ==
    IF totalRooms = 0 THEN (IF occupiedRooms = 0 THEN NaN ELSE Infinity)
    ELSE Num((200 * occupiedRooms + totalRooms) \div (2 * totalRooms))

\* the daily summary of AdminDashboard.fetchData
DailySummaryOf(data, roomsData, nowMs, offset) ==
    LET today == LocalMidnight(Num(nowMs), offset)
        CheckInToday(b) == CheckInIsToday(b, nowMs, offset)
        CheckOutToday(b) == StrictEquals(LocalMidnight(b.scheduledCheckOut, offset), today)
    IN [checkIns |-> Len(SelectSeq(data, CheckInToday)),
        checkOuts |-> Len(SelectSeq(data, CheckOutToday)),
        revenue |-> TodayRevenue(data, nowMs, offset),
        occupancyRate |-> OccupancyRate(Len(SelectSeq(data, IsCheckedIn)), Len(roomsData)),
        pendingPayments |-> Len(SelectSeq(data, IsReserved))]

\* new Date().toISOString().split('T')[0]: the UTC calendar day, as a day number
IsoDay(nowMs) == nowMs \div DayMs

\* string.includes(today): the string's date part is the local day of its instant
IncludesDay(date, day, offset) == date.t = "num" /\ (date.n + offset) \div DayMs = day

\* the task counts of ReceptionistDashboard.fetchBookings
TaskCountsOf(data, nowMs, offset) ==
    LET today == IsoDay(nowMs)
        CheckIn(b) == IncludesDay(b.scheduledCheckIn, today, offset) /\ IsReserved(b)
        CheckOut(b) == IncludesDay(b.scheduledCheckOut, today, offset) /\ IsCheckedIn(b)
    IN [checkIns |-> Len(SelectSeq(data, CheckIn)),
        checkOuts |-> Len(SelectSeq(data, CheckOut)),
        reservations |-> Len(SelectSeq(data, IsReserved)),
        roomInspections |-> 4]

(***************************************************************************)
(* State after construction                                                *)
(***************************************************************************)
MaxInFlight == 1
MaxBookings == 4
MaxSummaryBookings == 2
MaxCaseBookings == 2
MaxAnomalyBookings == 2

\* the instant of the model's first cycle: noon of the day after the reference
Now0 == DayMs + 12 * HourMs

\* the useState defaults of the two components
DashboardDefaults ==
    /\ rooms = <<>>
    /\ upcomingCheckouts = <<>>
    /\ dailySummary = [checkIns |-> 0, checkOuts |-> 0, revenue |-> Num(0),
                       occupancyRate |-> Num(0), pendingPayments |-> 0]
    /\ taskCounts = [checkIns |-> 0, checkOuts |-> 0, reservations |-> 0, roomInspections |-> 0]
    /\ loading = TRUE
    /\ cycles = <<>>
    /\ basis = [at |-> 0, bookings |-> <<>>, rooms |-> <<>>, applied |-> FALSE, stale |-> FALSE,
                replaced |-> <<>>]
    /\ timer = TRUE
    /\ checkoutCalls = <<>>
    /\ checkedOut = {}

NoSession ==
    /\ store = Absent
    /\ ret = [op |-> "none", arg |-> Absent, at |-> now, out |-> Return(Undefined)]
    /\ cleared = "no"

\* a Booking of the bookings response
MkBooking(i, tpl) ==
    [bookingCode |-> "BK" \o ToString(i),
     guestName |-> "guest" \o ToString(i),
     room |-> [roomNumber |-> ToString(100 + i)],
     status |-> tpl.status,
     scheduledCheckIn |-> tpl.checkIn,
     scheduledCheckOut |-> tpl.checkOut,
     totalCharges |-> tpl.charges]

\* a Room of the rooms response
MkRoom(i) == [id |-> i, roomNumber |-> ToString(100 + i), status |-> "AVAILABLE"]

\* what one booking of a response holds: the dates and the charges are values
\* of the JSON body, so they may be other than numbers
TplOf(status, checkIn, checkOut, charges) ==
    [status |-> status, checkIn |-> checkIn, checkOut |-> checkOut, charges |-> charges]

Tpl(status, checkIn, checkOut, charges) ==
    TplOf(status, Num(checkIn), Num(checkOut), Num(charges))

\* bookings for the upcoming-checkoutCalls list: checked in and overdue, due
\* now, inside the window, at its end, one ms past it; and reserved inside it
UpcomingPool ==
    {Tpl("CHECKED_IN", Now0 - DayMs, Now0 + d, 50) :
        d \in {0 - MinuteMs, 0, 5000, 120000, WindowMs, WindowMs + 1}}
    \cup {Tpl("RESERVED", Now0 - DayMs, Now0 + 5000, 50)}

\* bookings for the daily summary: every status, checking in today or
\* yesterday, checking out today or tomorrow
SummaryPool ==
    {Tpl(st, ci, co, IF ci > Now0 - DayMs THEN 50 ELSE 30) :
        st \in {"RESERVED", "CHECKED_IN", "CHECKED_OUT", "CANCELED"},
        ci \in {Now0 - 2 * HourMs, Now0 - DayMs},
        co \in {Now0 + HourMs, Now0 + DayMs}}

\* the bookings response made of a sequence of templates
BookingList(tpls) == [i \in DOMAIN tpls |-> MkBooking(i, tpls[i])]

\* a dashboard just mounted: its effect has registered the interval
DashInitWith(pool, maxLen, roomCounts, overlap, counts) ==
    /\ view \in {"admin", "receptionist"}
    /\ tz = 0
    /\ now = Now0
    /\ cap = overlap
    /\ inspections \in counts
    /\ \E n \in 0..maxLen : \E tpls \in [1..n -> pool] : bookingsDb = BookingList(tpls)
    /\ roomsDb \in {[i \in 1..k |-> MkRoom(i)] : k \in roomCounts}
    /\ DashboardDefaults
    /\ NoSession

DashInit(pool, maxLen, roomCounts) == DashInitWith(pool, maxLen, roomCounts, MaxInFlight, {0})

Call(op, arg, out) == [op |-> op, arg |-> arg, at |-> now, out |-> out]

AuthInit ==
    /\ now = StartMs
    /\ NoSession
    /\ view = "none"
    /\ tz = 0
    /\ bookingsDb = <<>>
    /\ roomsDb = <<>>
    /\ cap = MaxInFlight
    /\ inspections = 0
    /\ DashboardDefaults

\* the login page stores the token the backend issued
StoreToken ==
    \E t \in Tokens :
        /\ store' = Present(t)
        /\ ret' = Call("setItem", Present(t), Return(Undefined))
        /\ cleared' = "no"
        /\ UNCHANGED <<now, dashVars>>

\* a caller decodes the token it read from the session store
CallParseJwt ==
    /\ store.present
    /\ ret' = Call("parseJwt", store, ParseJwt(store.token))
    /\ UNCHANGED <<store, now, cleared, dashVars>>

\* a caller validates the token it read from the session store
CallIsTokenValid ==
    /\ store.present
    /\ ret' = Call("isTokenValid", store, IsTokenValid(store.token, now))
    /\ UNCHANGED <<store, now, cleared, dashVars>>

CallGetUserRoleFromToken ==
    /\ ret' = Call("getUserRoleFromToken", store, GetUserRoleFromToken(store))
    /\ UNCHANGED <<store, now, cleared, dashVars>>

CallGetUserIdFromToken ==
    /\ ret' = Call("getUserIdFromToken", store, GetUserIdFromToken(store))
    /\ UNCHANGED <<store, now, cleared, dashVars>>

CallGetUsername ==
    /\ ret' = Call("getUsername", store, GetUsername(store))
    /\ UNCHANGED <<store, now, cleared, dashVars>>

ClearAuthToken ==
    /\ store' = RemoveItem(store)
    /\ ret' = Call("clearAuthToken", store, Return(Undefined))
    /\ cleared' = IF store.present THEN "token" ELSE "empty"
    /\ UNCHANGED <<now, dashVars>>

\* the wall clock advances
Tick ==
    /\ now < StartMs + MaxTicks * TickMs
    /\ now' = now + TickMs
    /\ UNCHANGED <<store, ret, cleared, dashVars>>

AuthNext ==
    \/ StoreToken
    \/ CallParseJwt
    \/ CallIsTokenValid
    \/ CallGetUserRoleFromToken
    \/ CallGetUserIdFromToken
    \/ CallGetUsername
    \/ ClearAuthToken
    \/ Tick

SpecAuth == AuthInit /\ [][AuthNext]_vars

(***************************************************************************)
(* The fetch cycles of the mounted dashboard.  A cycle runs from one await *)
(* to the next in one step; a request resolves ok or fails (a response     *)
(* that is not ok, or a rejected fetch).  The body of an ok bookings       *)
(* response is what the backend held at some moment while the request was  *)
(* in flight (seen).                                                       *)
(***************************************************************************)
Remove(seq, i) == SubSeq(seq, 1, i - 1) \o SubSeq(seq, i + 1, Len(seq))

\* a cycle in flight; roomsAtStart and stale are history: the rooms state
\* when the cycle started, and whether a cycle started after it has applied
Cycle(stage, roomsData, seen) ==
    [stage |-> stage, roomsData |-> roomsData, seen |-> seen, stale |-> FALSE,
     roomsAtStart |-> rooms]

\* cycle i applies its result: the cycles started before it are now stale
Overtake(i) ==
    Remove([k \in DOMAIN cycles |-> IF k < i THEN [cycles[k] EXCEPT !.stale = TRUE] ELSE cycles[k]], i)

\* variant of the setters with an ordering token: a stale cycle's call is dropped
SetStateUnlessStale(cycle, old, new) == IF cycle.stale THEN old ELSE new

\* setUpcomingCheckouts(...), setDailySummary(...), setTaskCounts(...) of a
\* cycle: the state takes the value of whichever cycle calls
SetState(cycle, old, new) == new

\* AdminDashboard: fetchData() from the effect or from setInterval, up to
\* the first await
AdminFetchDataStart ==
    /\ view = "admin"
    /\ timer
    /\ Len(cycles) < cap
    /\ loading' = TRUE
    /\ cycles' = Append(cycles, Cycle("rooms", <<>>, {}))
    /\ UNCHANGED <<now, authVars, envVars, bookingsDb, rooms, upcomingCheckouts, dailySummary,
                   taskCounts, basis, timer, checkoutCalls, checkedOut>>

\* the rooms response is ok: setRooms(roomsData), then the bookings request
AdminRoomsOk ==
    \E i \in DOMAIN cycles :
        /\ view = "admin"
        /\ cycles[i].stage = "rooms"
        /\ rooms' = roomsDb
        /\ cycles' = [cycles EXCEPT ![i].stage = "bookings", ![i].roomsData = roomsDb,
                                    ![i].seen = {bookingsDb}]
        /\ UNCHANGED <<now, authVars, envVars, bookingsDb, upcomingCheckouts, dailySummary,
                       taskCounts, loading, basis, timer, checkoutCalls, checkedOut>>

\* variant of the catch that also empties the upcoming list
AdminFetchFailClearsList ==
    \E i \in DOMAIN cycles :
        /\ view = "admin"
        /\ loading' = FALSE
        /\ upcomingCheckouts' = <<>>
        /\ cycles' = Remove(cycles, i)
        /\ UNCHANGED <<now, authVars, envVars, bookingsDb, rooms, dailySummary,
                       taskCounts, basis, timer, checkoutCalls, checkedOut>>

\* a request of fetchData fails: catch (toast), finally setLoading(false)
AdminFetchFail ==
    \E i \in DOMAIN cycles :
        /\ view = "admin"
        /\ loading' = FALSE
        /\ cycles' = Remove(cycles, i)
        /\ UNCHANGED <<now, authVars, envVars, bookingsDb, rooms, upcomingCheckouts, dailySummary,
                       taskCounts, basis, timer, checkoutCalls, checkedOut>>

\* the bookings response is ok: the aggregation, setUpcomingCheckouts,
\* setDailySummary, finally setLoading(false)
AdminBookingsOk ==
    \E i \in DOMAIN cycles :
        \E bookingsData \in cycles[i].seen :
            /\ view = "admin"
            /\ cycles[i].stage = "bookings"
            /\ upcomingCheckouts' =
                   SetState(cycles[i], upcomingCheckouts, UpcomingCheckoutsList(bookingsData, now))
            /\ dailySummary' =
                   SetState(cycles[i], dailySummary,
                            DailySummaryOf(bookingsData, cycles[i].roomsData, now, tz))
            /\ loading' = FALSE
            /\ cycles' = Overtake(i)
            /\ basis' = [at |-> now, bookings |-> bookingsData, rooms |-> cycles[i].roomsData,
                         applied |-> TRUE, stale |-> cycles[i].stale,
                         replaced |-> IF cycles[i].stale THEN basis.bookings ELSE <<>>]
            /\ UNCHANGED <<now, authVars, envVars, bookingsDb, rooms, taskCounts, timer,
                           checkoutCalls, checkedOut>>

\* ReceptionistDashboard: fetchBookings() up to its await
ReceptionistFetchStart ==
    /\ view = "receptionist"
    /\ timer
    /\ Len(cycles) < cap
    /\ loading' = TRUE
    /\ cycles' = Append(cycles, Cycle("bookings", <<>>, {bookingsDb}))
    /\ UNCHANGED <<now, authVars, envVars, bookingsDb, rooms, upcomingCheckouts, dailySummary,
                   taskCounts, basis, timer, checkoutCalls, checkedOut>>

\* the bookings request of fetchBookings fails
ReceptionistFetchFail ==
    \E i \in DOMAIN cycles :
        /\ view = "receptionist"
        /\ loading' = FALSE
        /\ cycles' = Remove(cycles, i)
        /\ UNCHANGED <<now, authVars, envVars, bookingsDb, rooms, upcomingCheckouts, dailySummary,
                       taskCounts, basis, timer, checkoutCalls, checkedOut>>

\* the bookings response is ok: setTaskCounts, setUpcomingCheckouts,
\* finally setLoading(false)
ReceptionistBookingsOk ==
    \E i \in DOMAIN cycles :
        \E data \in cycles[i].seen :
            /\ view = "receptionist"
            /\ cycles[i].stage = "bookings"
            /\ taskCounts' = SetState(cycles[i], taskCounts, TaskCountsOf(data, now, tz))
            /\ upcomingCheckouts' =
                   SetState(cycles[i], upcomingCheckouts, UpcomingCheckoutsList(data, now))
            /\ loading' = FALSE
            /\ cycles' = Overtake(i)
            /\ basis' = [at |-> now, bookings |-> data, rooms |-> <<>>,
                         applied |-> TRUE, stale |-> cycles[i].stale,
                         replaced |-> IF cycles[i].stale THEN basis.bookings ELSE <<>>]
            /\ UNCHANGED <<now, authVars, envVars, bookingsDb, rooms, dailySummary, timer,
                           checkoutCalls, checkedOut>>

DashNext ==
    \/ AdminFetchDataStart
    \/ AdminRoomsOk
    \/ AdminFetchFail
    \/ AdminBookingsOk
    \/ ReceptionistFetchStart
    \/ ReceptionistFetchFail
    \/ ReceptionistBookingsOk

\* bookings whose status arrives in either letter case, checking in today and
\* checking out within the hour
CasePool ==
    {Tpl(st, Now0 - 2 * HourMs, Now0 + HourMs, 50) :
        st \in {"CHECKED_IN", "checked_in", "RESERVED", "reserved"}}

\* checked-in bookings of a response whose dates may not parse (an invalid
\* Date, whose getTime() is NaN) and whose charges may not be a number
AnomalyPool ==
    {TplOf("CHECKED_IN", ci, co, ch) :
        ci \in {Num(Now0 - 2 * HourMs), NaN},
        co \in {Num(Now0 + HourMs), NaN},
        ch \in {Num(50), Str("50.00"), Undefined}}

\* the counts the collaborator may hold for a cycle
InspectionCounts == {2, 4}

\* the backend each specification starts from; the upcoming list reads no
\* room, so its specification has none
CaseInit == DashInitWith(CasePool, MaxCaseBookings, {3}, MaxInFlight, InspectionCounts)
AnomalyInit == DashInit(AnomalyPool, MaxAnomalyBookings, {3})
UpcomingInit == DashInit(UpcomingPool, MaxBookings, {0})
SummaryInit == DashInit(SummaryPool, MaxSummaryBookings, {0, 3})

SpecUpcoming == UpcomingInit /\ [][DashNext]_vars
SpecSummary == SummaryInit /\ [][DashNext]_vars
SpecCase == CaseInit /\ [][DashNext]_vars
SpecAnomaly == AnomalyInit /\ [][DashNext]_vars

(***************************************************************************)
(* The receptionist's checkout button and the unmounting of the dashboard  *)
(***************************************************************************)
MaxOverlap == 2
MaxOverlapBookings == 1
MaxCycleBookings == 2
MaxCheckoutCalls == 1

\* what the backend holds once POST /api/guest/check-out has been served
CheckedOut(data, bookingCode) ==
    [j \in DOMAIN data |->
        IF data[j].bookingCode = bookingCode THEN [data[j] EXCEPT !.status = "CHECKED_OUT"]
        ELSE data[j]]

\* upcomingCheckouts.filter(checkout => checkout.bookingCode !== bookingCode)
WithoutCode(list, bookingCode) ==
    LET Other(checkout) == checkout.bookingCode # bookingCode
    IN SelectSeq(list, Other)

\* the bookings requests in flight may be served from what the backend now holds
Serve(data) ==
    [k \in DOMAIN cycles |->
        IF cycles[k].stage = "bookings" THEN [cycles[k] EXCEPT !.seen = @ \cup {data}]
        ELSE cycles[k]]

\* the backend serves the check-out of a checked-in guest for another client
BackendCheckOut ==
    \E j \in DOMAIN bookingsDb :
        /\ bookingsDb[j].status = "CHECKED_IN"
        /\ bookingsDb' = CheckedOut(bookingsDb, bookingsDb[j].bookingCode)
        /\ cycles' = Serve(CheckedOut(bookingsDb, bookingsDb[j].bookingCode))
        /\ UNCHANGED <<now, authVars, envVars, rooms, upcomingCheckouts, dailySummary, taskCounts,
                       loading, basis, timer, checkoutCalls, checkedOut>>

\* handleCheckout(bookingCode) from the button of a listed checkout, up to its
\* await; the handler closes over the upcomingCheckouts of the render
HandleCheckoutStart ==
    \E k \in DOMAIN upcomingCheckouts :
        /\ view = "receptionist"
        /\ timer
        /\ Len(checkoutCalls) < MaxCheckoutCalls
        /\ checkoutCalls' = Append(checkoutCalls,
                                   [bookingCode |-> upcomingCheckouts[k].bookingCode,
                                    closure |-> upcomingCheckouts])
        /\ UNCHANGED <<now, authVars, envVars, bookingsDb, cycles, rooms, upcomingCheckouts,
                       dailySummary, taskCounts, loading, basis, timer, checkedOut>>

\* the check-out response is ok: toast, setUpcomingCheckouts(updatedCheckouts)
HandleCheckoutOk ==
    \E i \in DOMAIN checkoutCalls :
        LET call == checkoutCalls[i] IN
        /\ bookingsDb' = CheckedOut(bookingsDb, call.bookingCode)
        /\ cycles' = Serve(CheckedOut(bookingsDb, call.bookingCode))
        /\ upcomingCheckouts' = WithoutCode(call.closure, call.bookingCode)
        /\ checkedOut' = checkedOut \cup {call.bookingCode}
        /\ checkoutCalls' = Remove(checkoutCalls, i)
        /\ UNCHANGED <<now, authVars, envVars, rooms, dailySummary, taskCounts, loading, basis,
                       timer>>

\* the check-out request fails: catch (toast)
HandleCheckoutFail ==
    \E i \in DOMAIN checkoutCalls :
        /\ checkoutCalls' = Remove(checkoutCalls, i)
        /\ UNCHANGED <<now, authVars, envVars, bookingsDb, cycles, rooms, upcomingCheckouts,
                       dailySummary, taskCounts, loading, basis, timer, checkedOut>>

\* clearInterval(refreshInterval)
ClearInterval(registered) == FALSE

\* the dashboard unmounts: the effect's cleanup
Unmount ==
    /\ timer
    /\ timer' = ClearInterval(timer)
    /\ UNCHANGED <<now, authVars, envVars, bookingsDb, cycles, rooms, upcomingCheckouts,
                   dailySummary, taskCounts, loading, basis, checkoutCalls, checkedOut>>

CycleNext ==
    \/ AdminFetchDataStart
    \/ AdminRoomsOk
    \/ AdminFetchFail
    \/ AdminBookingsOk
    \/ ReceptionistFetchStart
    \/ ReceptionistFetchFail
    \/ ReceptionistBookingsOk
    \/ HandleCheckoutStart
    \/ HandleCheckoutOk
    \/ HandleCheckoutFail
    \/ Unmount

\* a checked-in booking due within the window
CyclePool == {Tpl("CHECKED_IN", Now0 - DayMs, Now0 + HourMs, 50)}

CycleInit == DashInitWith(CyclePool, MaxCycleBookings, {0}, MaxOverlap, {0})

SpecCycles == CycleInit /\ [][CycleNext]_vars

\* overlapping cycles while the backend's bookings change
OverlapNext ==
    \/ AdminFetchDataStart
    \/ AdminRoomsOk
    \/ AdminFetchFail
    \/ AdminBookingsOk
    \/ ReceptionistFetchStart
    \/ ReceptionistFetchFail
    \/ ReceptionistBookingsOk
    \/ BackendCheckOut

OverlapInit == DashInitWith(CyclePool, MaxOverlapBookings, {2}, MaxOverlap, {0})

SpecOverlap == OverlapInit /\ [][OverlapNext]_vars

(***************************************************************************)
(* Claims about the credential decoder (checked under SpecAuth)            *)
(***************************************************************************)
Accessors == {"getUserRoleFromToken", "getUserIdFromToken", "getUsername"}

\* what the token holds, read off the token itself
HoldsJson(st) == st.present /\ Len(st.token) >= 2 /\ st.token[2].enc = "json"
HoldsClaims(st) == HoldsJson(st) /\ st.token[2].val.t = "obj"
HoldsExp(st) == HoldsClaims(st) /\ "exp" \in DOMAIN st.token[2].val.f
ExpMs(st) == st.token[2].val.f["exp"].n * 1000

\* C1: isTokenValid returns true only when the decoded expiry is strictly
\* greater than the current time in seconds; with exp equal to the current
\* time it returns false, with exp one second later it returns true.
C1_ExpiryStrictlyGreater ==
    ret.op = "isTokenValid" =>
        /\ ret.out = Return(Bool(TRUE)) => HoldsExp(ret.arg) /\ ExpMs(ret.arg) > ret.at
        /\ HoldsExp(ret.arg) /\ ExpMs(ret.arg) = ret.at => ret.out = Return(Bool(FALSE))
        /\ HoldsExp(ret.arg) /\ ExpMs(ret.arg) = ret.at + 1000 => ret.out = Return(Bool(TRUE))

\* isTokenValid was called at the very second the token expires
C1_Witness ==
    /\ ret.op = "isTokenValid"
    /\ HoldsExp(ret.arg)
    /\ ExpMs(ret.arg) = ret.at
    /\ ret.out = Return(Bool(FALSE))

\* C2 (as claimed): parseJwt returns null for every token that does not
\* consist of exactly three dot-separated segments, even when the segment
\* at index 1 is a well-formed payload.
C2_NotThreeSegmentsIsNull ==
    ret.op = "parseJwt" /\ Len(ret.arg.token) # 3 => ret.out = Return(Null)

\* C3: no operation of the credential decoder raises to its caller, and on
\* an undecodable token parseJwt returns null, isTokenValid returns false
\* and the three accessors return null.
C3_NeverRaises ==
    /\ ret.out.k = "return"
    /\ ret.arg.present /\ ~HoldsJson(ret.arg) =>
          /\ ret.op = "parseJwt" => ret.out = Return(Null)
          /\ ret.op = "isTokenValid" => ret.out = Return(Bool(FALSE))
          /\ ret.op \in Accessors => ret.out = Return(Null)

\* parseJwt was called on a token whose payload is not JSON
C3_Witness ==
    /\ ret.op = "parseJwt"
    /\ Len(ret.arg.token) = 3
    /\ ret.arg.token[2].enc = "badJson"
    /\ ret.out = Return(Null)

\* C4: a token whose payload decodes to a claims record without an expiry
\* field is invalid at every current time.
C4_NoExpiryIsExpired ==
    ret.op = "isTokenValid" /\ HoldsClaims(ret.arg) /\ ~HoldsExp(ret.arg) =>
        ret.out = Return(Bool(FALSE))

\* isTokenValid was called, after the clock advanced, on a three-segment
\* token whose claims have a role but no expiry
C4_Witness ==
    /\ ret.op = "isTokenValid"
    /\ HoldsClaims(ret.arg) /\ ~HoldsExp(ret.arg)
    /\ Len(ret.arg.token) = 3
    /\ "role" \in DOMAIN ret.arg.token[2].val.f
    /\ ret.at > StartMs
    /\ ret.out = Return(Bool(FALSE))

\* C5: after clearAuthToken, whatever the store held, the store is absent
\* and every accessor returns null until a token is stored again; clearing
\* an empty store changes nothing and raises nothing.
C5_ClearedStoreYieldsNull ==
    /\ ret.op = "clearAuthToken" => cleared # "no" /\ ret.out = Return(Undefined)
    /\ cleared # "no" =>
          /\ store = Absent
          /\ ret.op \in Accessors \cup {"clearAuthToken"}
          /\ ret.op \in Accessors => ret.arg = Absent /\ ret.out = Return(Null)

\* an accessor was called after clearAuthToken removed a token with claims
C5_Witness ==
    /\ cleared = "token"
    /\ ret.op = "getUsername"
    /\ ret.out = Return(Null)

(***************************************************************************)
(* Claims about the booking aggregation.  The applied result is compared   *)
(* with the bookings and the instant it was computed from (basis).         *)
(***************************************************************************)
BasisIdx == DOMAIN basis.bookings

\* scheduledCheckOut - now of booking j, for the cycle that was applied
RemainingAt(j) == basis.bookings[j].scheduledCheckOut.n - basis.at

\* booking j is checked in and 0 < remaining <= 2 hours
Qualifies(j) ==
    /\ basis.bookings[j].status = "CHECKED_IN"
    /\ RemainingAt(j) > 0
    /\ RemainingAt(j) <= 2 * 60 * 60 * 1000

\* the booking an entry of the list was made from
BookingOf(entry) == CHOOSE j \in BasisIdx : basis.bookings[j].bookingCode = entry.bookingCode

Listed(j) ==
    \E i \in DOMAIN upcomingCheckouts :
        upcomingCheckouts[i].bookingCode = basis.bookings[j].bookingCode

\* C6: the upcoming-checkoutCalls list holds only checked-in bookings with
\* 0 < scheduledCheckOut - now <= 2 hours (never one due now, overdue or
\* more than 2 hours away); a checkout exactly 2 hours away is eligible: it
\* is listed whenever no more than the limit qualify.
C6_UpcomingWithinWindow ==
    /\ \A i \in DOMAIN upcomingCheckouts :
          \E j \in BasisIdx :
              /\ basis.bookings[j].bookingCode = upcomingCheckouts[i].bookingCode
              /\ Qualifies(j)
    /\ basis.applied =>
          \A j \in BasisIdx :
              /\ basis.bookings[j].status = "CHECKED_IN"
              /\ RemainingAt(j) = 2 * 60 * 60 * 1000
              /\ Cardinality({k \in BasisIdx : Qualifies(k)}) <= 3
              => Listed(j)

\* a cycle of the receptionist's dashboard listed a checkout exactly 2 hours
\* away and left out a checkout due now, an overdue one and one a
\* millisecond past the window
C6_Witness ==
    /\ basis.applied
    /\ view = "receptionist"
    /\ \E j \in BasisIdx : RemainingAt(j) = 2 * 60 * 60 * 1000 /\ Listed(j)
    /\ \E j \in BasisIdx :
          basis.bookings[j].status = "CHECKED_IN" /\ RemainingAt(j) = 0 /\ ~Listed(j)
    /\ \E j \in BasisIdx :
          basis.bookings[j].status = "CHECKED_IN" /\ RemainingAt(j) < 0 /\ ~Listed(j)
    /\ \E j \in BasisIdx :
          basis.bookings[j].status = "CHECKED_IN" /\ RemainingAt(j) = 2 * 60 * 60 * 1000 + 1
          /\ ~Listed(j)

\* C7: the list is in ascending order of remaining time, whatever the order
\* of the bookings in the response.
C7_UpcomingAscending ==
    \A i \in DOMAIN upcomingCheckouts :
        i + 1 \in DOMAIN upcomingCheckouts =>
            RemainingAt(BookingOf(upcomingCheckouts[i]))
                <= RemainingAt(BookingOf(upcomingCheckouts[i + 1]))

\* a cycle of the admin dashboard listed, most urgent first, three checkoutCalls
\* that the response held as [5000 ms, 2 hours, 120000 ms]
C7_Witness ==
    /\ basis.applied
    /\ view = "admin"
    /\ Len(basis.bookings) >= 3
    /\ \A j \in 1..3 : basis.bookings[j].status = "CHECKED_IN"
    /\ RemainingAt(1) = 5000
    /\ RemainingAt(2) = 2 * 60 * 60 * 1000
    /\ RemainingAt(3) = 120000
    /\ Len(upcomingCheckouts) = 3
    /\ upcomingCheckouts[1].bookingCode = basis.bookings[1].bookingCode
    /\ upcomingCheckouts[2].bookingCode = basis.bookings[3].bookingCode
    /\ upcomingCheckouts[3].bookingCode = basis.bookings[2].bookingCode

\* C8: the list never holds more than 3 entries; when more than 3 bookings
\* qualify it holds exactly 3, and every qualifying booking left out has a
\* remaining time no smaller than that of every listed one.
C8_UpcomingAtMostLimit ==
    /\ Len(upcomingCheckouts) <= 3
    /\ basis.applied /\ Cardinality({j \in BasisIdx : Qualifies(j)}) > 3 =>
          /\ Len(upcomingCheckouts) = 3
          /\ \A j \in BasisIdx :
                Qualifies(j) /\ ~Listed(j) =>
                    \A i \in DOMAIN upcomingCheckouts :
                        RemainingAt(BookingOf(upcomingCheckouts[i])) <= RemainingAt(j)

\* four bookings qualified; the one left out came first in the response and
\* is due later than every listed one
C8_Witness ==
    /\ basis.applied
    /\ Cardinality({j \in BasisIdx : Qualifies(j)}) = 4
    /\ Len(upcomingCheckouts) = 3
    /\ Qualifies(1) /\ ~Listed(1)
    /\ \A i \in DOMAIN upcomingCheckouts :
          RemainingAt(BookingOf(upcomingCheckouts[i])) < RemainingAt(1)

\* the local calendar day of an instant
LocalDay(ms) == (ms + tz) \div (24 * 60 * 60 * 1000)

\* C9 (as claimed): the daily summary's checkIns is the number of bookings
\* whose scheduled check-in day is today and whose status is reserved.
C9_CheckInsAreReservedToday ==
    basis.applied /\ view = "admin" =>
        dailySummary.checkIns =
            Cardinality({j \in BasisIdx :
                /\ LocalDay(basis.bookings[j].scheduledCheckIn.n) = LocalDay(basis.at)
                /\ basis.bookings[j].status = "RESERVED"})

\* C10 (as claimed): the daily summary's checkOuts is the number of bookings
\* whose scheduled check-out day is today and whose status is checked-in.
C10_CheckOutsAreCheckedInToday ==
    basis.applied /\ view = "admin" =>
        dailySummary.checkOuts =
            Cardinality({j \in BasisIdx :
                /\ LocalDay(basis.bookings[j].scheduledCheckOut.n) = LocalDay(basis.at)
                /\ basis.bookings[j].status = "CHECKED_IN"})

(***************************************************************************)
(* Claims about the daily summary and the task counts                      *)
(***************************************************************************)
\* the bookings of the applied snapshot whose scheduled check-in day is today
CheckInTodayIdx ==
    {j \in BasisIdx : /\ basis.bookings[j].scheduledCheckIn.t = "num"
                      /\ LocalDay(basis.bookings[j].scheduledCheckIn.n) = LocalDay(basis.at)}

\* the sum of the numeric charges of a set of bookings of the applied snapshot
RECURSIVE ChargesOf(_)
ChargesOf(idx) ==
    IF idx = {} THEN 0
    ELSE LET j == CHOOSE k \in idx : TRUE
             c == basis.bookings[j].totalCharges
         IN (IF c.t = "num" THEN c.n ELSE 0) + ChargesOf(idx \ {j})

\* C11: the daily summary's revenue is the sum of totalCharges over exactly
\* the bookings whose scheduled check-in day is today, whatever their status;
\* bookings of other days add nothing, and no such booking gives 0.
C11_RevenueIsTodaysCheckIns ==
    basis.applied /\ view = "admin" => dailySummary.revenue = Num(ChargesOf(CheckInTodayIdx))

\* a canceled booking checking in today counts, one of yesterday does not
C11_Witness ==
    /\ basis.applied /\ view = "admin"
    /\ Len(basis.bookings) = 2
    /\ basis.bookings[1].status = "CANCELED" /\ 1 \in CheckInTodayIdx
    /\ basis.bookings[1].totalCharges = Num(50)
    /\ 2 \notin CheckInTodayIdx
    /\ basis.bookings[2].totalCharges = Num(30)
    /\ dailySummary.revenue = Num(50)

\* C12 (as claimed): with no rooms in the room snapshot the occupancy rate is
\* 0 for every booking snapshot, and never NaN or infinite.
C12_NoRoomsIsZeroOccupancy ==
    basis.applied /\ view = "admin" /\ Len(basis.rooms) = 0 => dailySummary.occupancyRate = Num(0)

\* a status in the letter case the comparisons are written in
UpperCase(status) ==
    CASE status = "checked_in" -> "CHECKED_IN"
      [] status = "reserved" -> "RESERVED"
      [] OTHER -> status

\* the applied snapshot with every status in upper case
BasisUpperCase == [j \in BasisIdx |-> [basis.bookings[j] EXCEPT !.status = UpperCase(@)]]

\* C13 (as claimed): the status is normalized before it is compared, so a
\* snapshot gives the upcoming list, the daily summary and the task counts
\* of the snapshot that differs from it only in the letter case of the status.
C13_StatusCaseIsNormalized ==
    basis.applied =>
        /\ upcomingCheckouts = UpcomingCheckoutsList(BasisUpperCase, basis.at)
        /\ view = "admin" => dailySummary = DailySummaryOf(BasisUpperCase, basis.rooms, basis.at, tz)
        /\ view = "receptionist" => taskCounts = TaskCountsOf(BasisUpperCase, basis.at, tz)

\* C14 (as claimed): the task counts' roomInspections is the count the
\* external collaborator supplies for the cycle, not a constant of the code.
C14_RoomInspectionsIsSupplied ==
    basis.applied /\ view = "receptionist" => taskCounts.roomInspections = inspections

\* the bookings of the applied snapshot whose scheduled check-in parses, and
\* those whose scheduled check-out parses
ParsesCheckIn(b) == b.scheduledCheckIn.t = "num"
ParsesCheckOut(b) == b.scheduledCheckOut.t = "num"
BasisCheckInParsed == SelectSeq(basis.bookings, ParsesCheckIn)
BasisCheckOutParsed == SelectSeq(basis.bookings, ParsesCheckOut)

\* C15 (as claimed): a booking whose scheduled date does not parse is left out
\* of the same-day counts and of the upcoming list, and a booking whose
\* totalCharges is not a number is left out of the revenue, which stays the
\* numeric sum of the valid amounts.
C15_AnomaliesAreLeftOut ==
    basis.applied =>
        /\ \A i \in DOMAIN upcomingCheckouts :
              basis.bookings[BookingOf(upcomingCheckouts[i])].scheduledCheckOut.t = "num"
        /\ view = "admin" =>
              /\ dailySummary.checkIns =
                     DailySummaryOf(BasisCheckInParsed, basis.rooms, basis.at, tz).checkIns
              /\ dailySummary.checkOuts =
                     DailySummaryOf(BasisCheckOutParsed, basis.rooms, basis.at, tz).checkOuts
              /\ dailySummary.revenue = Num(ChargesOf(CheckInTodayIdx))
        /\ view = "receptionist" =>
              /\ taskCounts.checkIns = TaskCountsOf(BasisCheckInParsed, basis.at, tz).checkIns
              /\ taskCounts.checkOuts = TaskCountsOf(BasisCheckOutParsed, basis.at, tz).checkOuts

\* C16 (as claimed): for one snapshot and one instant the receptionist's task
\* counts are a projection of the admin's daily summary: the same checkIns,
\* the same checkOuts, and reservations equal to pendingPayments.
C16_TaskCountsProjectSummary ==
    basis.applied =>
        LET summary == IF view = "admin" THEN dailySummary
                       ELSE DailySummaryOf(basis.bookings, roomsDb, basis.at, tz)
            counts == IF view = "receptionist" THEN taskCounts
                      ELSE TaskCountsOf(basis.bookings, basis.at, tz)
        IN /\ counts.checkIns = summary.checkIns
           /\ counts.checkOuts = summary.checkOuts
           /\ counts.reservations = summary.pendingPayments

(***************************************************************************)
(* Claims about the fetch cycles                                           *)
(***************************************************************************)
\* C17: the state holds the result of the cycle that wrote last, whatever the
\* order the cycles started in: a cycle that started earlier and resolves
\* later overwrites the result of the newer cycle.
C17_LastWriteWins ==
    basis.applied =>
        /\ upcomingCheckouts = UpcomingCheckoutsList(basis.bookings, basis.at)
        /\ view = "admin" =>
              dailySummary = DailySummaryOf(basis.bookings, basis.rooms, basis.at, tz)
        /\ view = "receptionist" => taskCounts = TaskCountsOf(basis.bookings, basis.at, tz)

\* the cycle that wrote last started before the one whose result it replaced,
\* and it shows a guest the replaced result no longer listed
C17_Witness ==
    /\ basis.applied /\ basis.stale
    /\ basis.bookings # basis.replaced
    /\ basis.replaced = bookingsDb
    /\ Len(upcomingCheckouts) = 1
    /\ UpcomingCheckoutsList(basis.replaced, basis.at) = <<>>

\* cycle i ends in this step without applying a result
Fails(i) == cycles' = Remove(cycles, i) /\ basis' = basis

\* cycle i has its rooms response in this step
GetsRooms(i) ==
    /\ Len(cycles') = Len(cycles)
    /\ cycles[i].stage = "rooms"
    /\ cycles'[i].stage = "bookings"

\* C18 (as claimed): a cycle that fails leaves rooms, upcomingCheckouts, the
\* daily summary and the task counts as they were when it began (no other
\* cycle running meanwhile), and loading is false once it ends.
C18_FailedCycleRestoresState ==
    [][\A i \in DOMAIN cycles :
          cap = 1 /\ Fails(i) =>
              /\ rooms' = cycles[i].roomsAtStart
              /\ UNCHANGED <<upcomingCheckouts, dailySummary, taskCounts>>
              /\ loading' = FALSE]_vars

\* C18 (amended): the step in which a cycle fails changes loading alone, to
\* false; before it the cycle has changed loading, when it started, and
\* rooms, when it is an admin cycle whose rooms response was ok.
C18_FailedCycleKeepsResults ==
    [][/\ \A i \in DOMAIN cycles :
             /\ Fails(i) =>
                   /\ UNCHANGED <<rooms, upcomingCheckouts, dailySummary, taskCounts>>
                   /\ loading' = FALSE
             /\ GetsRooms(i) =>
                   /\ view = "admin"
                   /\ rooms' = cycles'[i].roomsData
                   /\ UNCHANGED <<upcomingCheckouts, dailySummary, taskCounts, loading>>
       /\ Len(cycles') > Len(cycles) =>
             /\ UNCHANGED <<rooms, upcomingCheckouts, dailySummary, taskCounts>>
             /\ loading' = TRUE]_vars

\* an admin cycle has failed at its bookings request, after it set the rooms
C18_Witness ==
    /\ view = "admin"
    /\ ~basis.applied /\ cycles = <<>> /\ ~loading
    /\ rooms = roomsDb /\ rooms # <<>>
    /\ upcomingCheckouts = <<>>

\* C19 (as claimed): a booking code that handleCheckout has removed from the
\* receptionist's upcomingCheckouts is never listed again, also when a polling
\* cycle was in flight at the checkout; and a handleCheckout that fails
\* leaves upcomingCheckouts as it was.
C19_CheckedOutStaysRemoved ==
    [][/\ \A k \in DOMAIN upcomingCheckouts' :
             upcomingCheckouts'[k].bookingCode \notin checkedOut'
       /\ Len(checkoutCalls') < Len(checkoutCalls) /\ checkedOut' = checkedOut =>
             upcomingCheckouts' = upcomingCheckouts]_vars

\* C20 (as claimed): once the cleanup has cleared the interval no cycle
\* starts, and no cycle, not even one in flight at the unmount, writes rooms,
\* upcomingCheckouts, the daily summary, the task counts or loading.
C20_NoCycleWritesAfterUnmount ==
    [][~timer /\ checkoutCalls' = checkoutCalls =>
          /\ Len(cycles') <= Len(cycles)
          /\ UNCHANGED <<rooms, upcomingCheckouts, dailySummary, taskCounts, loading>>]_vars

====
